---- MODULE Spec2Model ----
(***************************************************************************)
(* Model of the tree-walking interpreter of src/main.py.                   *)
(*                                                                         *)
(* The recursive evaluate() methods are unfolded into a stack machine:     *)
(* `ctrl` is either a node about to be evaluated or a value being          *)
(* returned, `stack` holds one frame per evaluate() call that is waiting   *)
(* for a child.  The global dict `variables` is a reference into `heap`,   *)
(* so that dict.copy() and the rebinding of the global are distinguished   *)
(* from an update in place.  `log` is a history variable.                  *)
(***************************************************************************)
EXTENDS Integers, Sequences, FiniteSets, TLC

VARIABLES pc, err, tree, expression, ctrl, stack, variables, heap, out, log

vars == <<pc, err, tree, expression, ctrl, stack, variables, heap, out, log>>

(***************************************************************************)
(* Bounds of the checked inputs.                                           *)
(***************************************************************************)
\* factorial is run for every argument 0..MaxN
MaxN == 5
\* the operator table is applied to every pair of integers -MaxInt..MaxInt
MaxInt == 2

(***************************************************************************)
(* Runtime values.  Python values are tagged by their type.                *)
(***************************************************************************)
NoneV == [t |-> "none"]
IntV(i) == [t |-> "int", i |-> i]
BoolV(b) == [t |-> "bool", b |-> b]
StrV(s) == [t |-> "str", s |-> s]
FloatV(n, d) == [t |-> "float", n |-> n, d |-> d]
\* a Function node evaluates to itself: the value is the node object
FnV(node) == [t |-> "fn", f |-> node]

\* an exception raised by the host
Raise(e) == [t |-> "raise", e |-> e]
\* a host operation this model does not compute (float arithmetic, string order)
Unmodelled == Raise("Unmodelled")

\* bool is a subclass of int: True is 1 and False is 0 in arithmetic
IsNum(v) == v.t \in {"int", "bool"}
Num(v) == IF v.t = "int" THEN v.i ELSE IF v.b THEN 1 ELSE 0

\* the truth value the host gives an object (`if x:`, `x and y`, `x or y`)
Truthy(v) ==
    CASE v.t = "bool" -> v.b
      [] v.t = "int" -> v.i # 0
      [] v.t = "str" -> v.s # ""
      [] v.t = "float" -> v.n # 0
      [] v.t = "fn" -> TRUE
      [] OTHER -> FALSE

\* a == b of the host
PyEq(a, b) ==
    CASE IsNum(a) /\ IsNum(b) -> Num(a) = Num(b)
      [] a.t = "str" /\ b.t = "str" -> a.s = b.s
      [] a.t = "none" /\ b.t = "none" -> TRUE
      [] a.t = "fn" /\ b.t = "fn" -> a.f.id = b.f.id
      [] OTHER -> FALSE

Digits == <<"0", "1", "2", "3", "4", "5", "6", "7", "8", "9">>

RECURSIVE IntStr(_)
\* str(int): decimal digits, a leading minus sign
IntStr(n) ==
    IF n < 0 THEN "-" \o IntStr(-n)
    ELSE IF n < 10 THEN Digits[n + 1]
    ELSE IntStr(n \div 10) \o Digits[(n % 10) + 1]

Abs(n) == IF n < 0 THEN -n ELSE n

\* the text print() writes for a value; an inexact quotient is not modelled
PyStr(v) ==
    CASE v.t = "int" -> IntStr(v.i)
      [] v.t = "bool" -> IF v.b THEN "True" ELSE "False"
      [] v.t = "str" -> v.s
      [] v.t = "none" -> "None"
      [] v.t = "fn" -> "<__main__.Function object>"  \* the address is left out
      [] v.t = "float" ->
           IF (v.n < 0) = (v.d < 0) \/ v.n = 0
           THEN IntStr(Abs(v.n) \div Abs(v.d)) \o ".0"
           ELSE "-" \o IntStr(Abs(v.n) \div Abs(v.d)) \o ".0"

PrintModelled(v) == v.t = "float" => Abs(v.n) % Abs(v.d) = 0

RECURSIVE Rep(_, _)
\* str * int
Rep(s, n) == IF n <= 0 THEN "" ELSE s \o Rep(s, n - 1)

(***************************************************************************)
(* BinaryOp.evaluate: the match over the operator name.                    *)
(***************************************************************************)
OperatorTable ==
    {"Add", "Sub", "Mul", "Div", "Eq", "Lt", "Gt", "Neg", "Lte", "Gte", "And", "Or"}

Ordering(a, b, r) ==
    CASE IsNum(a) /\ IsNum(b) -> BoolV(r)
      [] a.t = "float" \/ b.t = "float" -> Unmodelled
      [] a.t = "str" /\ b.t = "str" -> Unmodelled
      [] OTHER -> Raise("TypeError")

BinaryOp_evaluate(name, a, b) ==
    LET num == IsNum(a) /\ IsNum(b)
        flt == (a.t = "float" /\ (IsNum(b) \/ b.t = "float")) \/ (b.t = "float" /\ IsNum(a))
    IN
    CASE name = "Add" ->
           IF num THEN IntV(Num(a) + Num(b))
           ELSE IF flt THEN Unmodelled
           ELSE IF a.t = "str" /\ b.t = "str" THEN StrV(a.s \o b.s)
           ELSE Raise("TypeError")
      [] name = "Sub" ->
           IF num THEN IntV(Num(a) - Num(b))
           ELSE IF flt THEN Unmodelled
           ELSE Raise("TypeError")
      [] name = "Mul" ->
           IF num THEN IntV(Num(a) * Num(b))
           ELSE IF flt THEN Unmodelled
           ELSE IF a.t = "str" /\ IsNum(b) THEN StrV(Rep(a.s, Num(b)))
           ELSE IF IsNum(a) /\ b.t = "str" THEN StrV(Rep(b.s, Num(a)))
           ELSE Raise("TypeError")
      [] name = "Div" ->
           IF num THEN
               IF Num(b) = 0 THEN Raise("ZeroDivisionError")
               ELSE FloatV(Num(a), Num(b))
           ELSE IF flt THEN Unmodelled
           ELSE Raise("TypeError")
      [] name = "Eq" -> IF flt THEN Unmodelled ELSE BoolV(PyEq(a, b))
      [] name = "Lt" -> Ordering(a, b, IF num THEN Num(a) < Num(b) ELSE FALSE)
      [] name = "Gt" -> Ordering(a, b, IF num THEN Num(a) > Num(b) ELSE FALSE)
      [] name = "Neg" -> IF flt THEN Unmodelled ELSE BoolV(~PyEq(a, b))
      [] name = "Lte" -> Ordering(a, b, IF num THEN Num(a) <= Num(b) ELSE FALSE)
      [] name = "Gte" -> Ordering(a, b, IF num THEN Num(a) <= Num(b) ELSE FALSE)
      [] name = "And" -> IF Truthy(a) THEN b ELSE a
      [] name = "Or" -> IF Truthy(a) THEN a ELSE b
      [] OTHER -> NoneV

(***************************************************************************)
(* The input document: JSON objects as records.                            *)
(***************************************************************************)
TInt(v) == [kind |-> "Int", value |-> v]
TBool(v) == [kind |-> "Bool", value |-> v]
TStr(v) == [kind |-> "Str", value |-> v]
TVar(x) == [kind |-> "Var", text |-> x]
TLet(x, v, n) == [kind |-> "Let", name |-> [text |-> x], value |-> v, next |-> n]
TLetEnd(x, v) == [kind |-> "Let", name |-> [text |-> x], value |-> v]
TBinary(l, o, r) == [kind |-> "Binary", lhs |-> l, op |-> o, rhs |-> r]
TPrint(v) == [kind |-> "Print", value |-> v]
TIf(c, t, e) == [kind |-> "If", condition |-> c, then |-> t, otherwise |-> e]
TFunction(ps, b) ==
    [kind |-> "Function", parameters |-> [i \in 1..Len(ps) |-> [text |-> ps[i]]], value |-> b]
TCall(c, as) == [kind |-> "Call", callee |-> c, arguments |-> as]
\* a node kind parse() has no case for (the language's Tuple, First, Second)
TOther(k) == [kind |-> k]

(***************************************************************************)
(* parse(): the document to node objects.  A node object's identity is its *)
(* path from the root; parse() returns None for a kind it has no case for. *)
(***************************************************************************)
NoneNode == [kind |-> "None"]

RECURSIVE parse(_, _)
parse(t, path) ==
    CASE t.kind = "Let" ->
           [kind |-> "Let", id |-> path, name |-> [text |-> t.name.text],
            value |-> parse(t.value, Append(path, 1)),
            next |-> IF "next" \in DOMAIN t THEN parse(t.next, Append(path, 2)) ELSE NoneNode]
      [] t.kind = "Print" ->
           [kind |-> "Print", id |-> path, value |-> parse(t.value, Append(path, 1))]
      [] t.kind = "Binary" ->
           [kind |-> "Binary", id |-> path, lhs |-> parse(t.lhs, Append(path, 1)),
            op |-> [name |-> t.op], rhs |-> parse(t.rhs, Append(path, 2))]
      [] t.kind = "Int" -> [kind |-> "Int", id |-> path, value |-> t.value]
      [] t.kind = "Var" -> [kind |-> "Var", id |-> path, text |-> t.text]
      [] t.kind = "Bool" -> [kind |-> "Bool", id |-> path, value |-> (t.value = TRUE)]
      [] t.kind = "If" ->
           [kind |-> "If", id |-> path, condition |-> parse(t.condition, Append(path, 1)),
            then |-> parse(t.then, Append(path, 2)),
            otherwise |-> parse(t.otherwise, Append(path, 3))]
      [] t.kind = "Function" ->
           [kind |-> "Function", id |-> path,
            parameters |-> [i \in 1..Len(t.parameters) |-> [text |-> t.parameters[i].text]],
            value |-> parse(t.value, Append(path, 1))]
      [] t.kind = "Call" ->
           [kind |-> "Call", id |-> path, callee |-> parse(t.callee, Append(path, 1)),
            arguments |-> [i \in 1..Len(t.arguments) |->
                              parse(t.arguments[i], Append(path, i + 1))]]
      [] t.kind = "Str" -> [kind |-> "Str", id |-> path, value |-> t.value]
      [] OTHER -> NoneNode

RECURSIVE ConcatAll(_)
ConcatAll(ss) == IF ss = <<>> THEN <<>> ELSE Head(ss) \o ConcatAll(Tail(ss))

RECURSIVE parse_prints(_)
\* the lines parse() writes: print(tree["kind"]) on entry, before the children
parse_prints(t) ==
    <<t.kind>> \o
    CASE t.kind = "Let" ->
           parse_prints(t.value) \o
           (IF "next" \in DOMAIN t THEN parse_prints(t.next) ELSE <<>>)
      [] t.kind = "Print" -> parse_prints(t.value)
      [] t.kind = "Binary" -> parse_prints(t.lhs) \o parse_prints(t.rhs)
      [] t.kind = "If" ->
           parse_prints(t.condition) \o parse_prints(t.then) \o parse_prints(t.otherwise)
      [] t.kind = "Function" -> parse_prints(t.value)
      [] t.kind = "Call" ->
           parse_prints(t.callee) \o
           ConcatAll([i \in 1..Len(t.arguments) |-> parse_prints(t.arguments[i])])
      [] OTHER -> <<>>

(***************************************************************************)
(* The binding environment: dicts on the heap, `variables` names the       *)
(* global one.                                                             *)
(***************************************************************************)
EmptyDict == [x \in {} |-> NoneV]

\* dict[k] = v
Store(dict, k, v) == [x \in DOMAIN dict \cup {k} |-> IF x = k THEN v ELSE dict[x]]

\* old_variables = variables  (no copy: both names refer to one dict)
dict_alias(h, d) == d

\* variables.copy(): the reference of the new dict, allocated at the end of the heap
dict_copy(h, d) == Len(h) + 1

Min(a, b) == IF a < b THEN a ELSE b

\* a zip that stops one pair early
zip_short(xs, ys) == IF Min(Len(xs), Len(ys)) > 0 THEN Min(Len(xs), Len(ys)) - 1 ELSE 0

\* zip(xs, ys): the number of pairs it yields
zip(xs, ys) == Min(Len(xs), Len(ys))

\* the live contents of the global dict
Env == heap[variables]

(***************************************************************************)
(* The stack machine.                                                      *)
(***************************************************************************)
Eval(n) == [m |-> "eval", node |-> n]
Ret(v) == [m |-> "ret", val |-> v]
Halt == [m |-> "halt"]

Top == stack[Len(stack)]
Pop == SubSeq(stack, 1, Len(stack) - 1)
Depth == Len(stack)

Evaluating(k) == pc = "run" /\ ctrl.m = "eval" /\ ctrl.node.kind = k
Returning(f) == pc = "run" /\ ctrl.m = "ret" /\ stack # <<>> /\ Top.f = f

Entered(n) == [ev |-> "eval", id |-> n.id, d |-> Depth]

\* an uncaught exception ends the run
Fail(e) ==
    /\ pc' = "error"
    /\ err' = e
    /\ ctrl' = Halt

(***************************************************************************)
(* The documents the interpreter is run on.                                *)
(***************************************************************************)
Doc(e) == [name |-> "source.rinha", expression |-> e]

\* a; b
Then(a, b) == TLet("_", a, b)

\* fn (n) => if (n == 0) { 1 } else { n * fact(n - 1) }, the recursive call on `side`
FactBody(side) ==
    LET rec == TCall(TVar("fact"), <<TBinary(TVar("n"), "Sub", TInt(1))>>)
    IN TIf(TBinary(TVar("n"), "Eq", TInt(0)),
           TInt(1),
           IF side = "rhs" THEN TBinary(TVar("n"), "Mul", rec)
           ELSE TBinary(rec, "Mul", TVar("n")))

\* let fact = fn ...; print(fact(n))
Factorial(n, side) ==
    Doc(TLet("fact", TFunction(<<"n">>, FactBody(side)),
             TPrint(TCall(TVar("fact"), <<TInt(n)>>))))

FactorialPrograms == {Factorial(n, side) : n \in 0..MaxN, side \in {"lhs", "rhs"}}

Ints == (0 - MaxInt)..MaxInt

\* a tag the language has and the operator table lacks
UnknownTags == {"Neq", "Rem"}

\* print(a <op> b)
Operation(op, a, b) == Doc(TPrint(TBinary(TInt(a), op, TInt(b))))

OperationPrograms ==
    {Operation(op, a, b) : op \in (OperatorTable \ {"Div"}) \cup UnknownTags,
                           a \in Ints, b \in Ints}

\* let x = 1; let f = fn (y) => { let x = 2; let z = 3; x + y };
\* let g = fn (x) => f(x) + x; let r = g({ let w = 5; 10 }); print(r); print(x)
RestoreProgram ==
    Doc(TLet("x", TInt(1),
        TLet("f", TFunction(<<"y">>,
                    TLet("x", TInt(2), TLet("z", TInt(3),
                         TBinary(TVar("x"), "Add", TVar("y"))))),
        TLet("g", TFunction(<<"x">>,
                    TBinary(TCall(TVar("f"), <<TVar("x")>>), "Add", TVar("x"))),
        TLet("r", TCall(TVar("g"), <<TLet("w", TInt(5), TInt(10))>>),
        Then(TPrint(TVar("r")), TPrint(TVar("x"))))))))

\* let a = 1; let b = 2; let f = fn (a, b) => { print(a); print(b) }; f(b, a)
SwapProgram ==
    Doc(TLet("a", TInt(1), TLet("b", TInt(2),
        TLet("f", TFunction(<<"a", "b">>, Then(TPrint(TVar("a")), TPrint(TVar("b")))),
        TCall(TVar("f"), <<TVar("b"), TVar("a")>>)))))

\* let p = 1; let q = 2; let f = fn (a, b) => a - b; print(f(p, q))
PlainCallProgram ==
    Doc(TLet("p", TInt(1), TLet("q", TInt(2),
        TLet("f", TFunction(<<"a", "b">>, TBinary(TVar("a"), "Sub", TVar("b"))),
        TPrint(TCall(TVar("f"), <<TVar("p"), TVar("q")>>))))))

\* if (c) { print("then") } else { print("else") }
IfProgram(c) == Doc(TIf(c, TPrint(TStr("then")), TPrint(TStr("else"))))

Conditions ==
    {TBool(TRUE), TBool(FALSE), TInt(0), TInt(1), TStr(""), TStr("s"),
     TFunction(<<>>, TInt(0)), TPrint(TInt(7))}

IfPrograms ==
    {IfProgram(c) : c \in Conditions}
    \cup {Doc(TIf(c, TPrint(TStr("then")), TOther("Tuple"))) : c \in Conditions}

\* let y = 9; let f = fn (x, y) => y; print(f(1))
MissingArgBound ==
    Doc(TLet("y", TInt(9), TLet("f", TFunction(<<"x", "y">>, TVar("y")),
        TPrint(TCall(TVar("f"), <<TInt(1)>>)))))

\* let f = fn (x, y) => y; print(f(1))
MissingArgUnbound ==
    Doc(TLet("f", TFunction(<<"x", "y">>, TVar("y")),
        TPrint(TCall(TVar("f"), <<TInt(1)>>))))

\* let f = fn (x) => x; print(f(1, print(2), 3))
ExtraArgs ==
    Doc(TLet("f", TFunction(<<"x">>, TVar("x")),
        TPrint(TCall(TVar("f"), <<TInt(1), TPrint(TInt(2)), TInt(3)>>))))

\* let x = 4; let f = fn (x) => x; print(f())
NoArgs ==
    Doc(TLet("x", TInt(4), TLet("f", TFunction(<<"x">>, TVar("x")),
        TPrint(TCall(TVar("f"), <<>>)))))

ArityPrograms == {MissingArgBound, MissingArgUnbound, ExtraArgs, NoArgs}

\* print({ print("L"); l } <op> { print("R"); r })
Logical(op, l, r) ==
    Doc(TPrint(TBinary(Then(TPrint(TStr("L")), TBool(l)), op,
                       Then(TPrint(TStr("R")), TBool(r)))))

LogicalPrograms == {Logical(op, l, r) : op \in {"And", "Or"}, l \in BOOLEAN, r \in BOOLEAN}

\* let mk = fn (x) => fn () => x; let g = mk(5); print(g())
ClosureProgram ==
    Doc(TLet("mk", TFunction(<<"x">>, TFunction(<<>>, TVar("x"))),
        TLet("g", TCall(TVar("mk"), <<TInt(5)>>),
        TPrint(TCall(TVar("g"), <<>>)))))

\* let mk = fn (x) => fn () => x; let g = mk(5); let x = 7; print(g())
ClosureRebound ==
    Doc(TLet("mk", TFunction(<<"x">>, TFunction(<<>>, TVar("x"))),
        TLet("g", TCall(TVar("mk"), <<TInt(5)>>),
        TLet("x", TInt(7),
        TPrint(TCall(TVar("g"), <<>>))))))

\* let k = 3; let f = fn () => k; let h = fn (k) => f(); print(h(8))
DynamicProgram ==
    Doc(TLet("k", TInt(3), TLet("f", TFunction(<<>>, TVar("k")),
        TLet("h", TFunction(<<"k">>, TCall(TVar("f"), <<>>)),
        TPrint(TCall(TVar("h"), <<TInt(8)>>))))))

ScopePrograms == {ClosureProgram, ClosureRebound, DynamicProgram}

OtherPrograms ==
    {Doc(TPrint(TBinary(TInt(4), "Div", TInt(2)))),
     Doc(TPrint(TBinary(TInt(4), "Div", TInt(0)))),
     Doc(TPrint(TBinary(TStr("a"), "Add", TStr("b")))),
     Doc(TPrint(TBinary(TStr("a"), "Sub", TInt(1)))),
     Doc(TLetEnd("x", TInt(1))),
     Doc(TOther("Tuple")),
     Doc(TCall(TInt(1), <<>>)),
     Doc(TLet("x", TInt(1), TCall(TVar("x"), <<>>))),
     Doc(TCall(TVar("nothing"), <<>>)),
     Doc(Then(TPrint(TInt(1)), TPrint(TInt(2))))}

Programs ==
    FactorialPrograms \cup OperationPrograms \cup IfPrograms \cup ArityPrograms
    \cup LogicalPrograms \cup ScopePrograms \cup OtherPrograms
    \cup {RestoreProgram, SwapProgram, PlainCallProgram}

Init ==
    /\ pc = "parse"
    /\ err = "none"
    /\ tree \in Programs
    /\ expression = NoneNode
    /\ ctrl = Halt
    /\ stack = <<>>
    /\ heap = <<EmptyDict>>
    /\ variables = 1
    /\ out = <<>>
    /\ log = <<>>

\* parse_ast(tree), then interpreter.evaluate() is entered
parse_ast ==
    /\ pc = "parse"
    /\ pc' = "run"
    /\ expression' = parse(tree.expression, <<>>)
    /\ out' = out \o parse_prints(tree.expression)
    /\ ctrl' = Eval(expression')
    /\ UNCHANGED <<err, tree, stack, variables, heap, log>>

\* Interpreter.evaluate returns: the value of the root is dropped
Interpreter_evaluate ==
    /\ pc = "run" /\ ctrl.m = "ret" /\ stack = <<>>
    /\ pc' = "done"
    /\ ctrl' = Halt
    /\ UNCHANGED <<err, tree, expression, stack, variables, heap, out, log>>

\* None.evaluate(): a child that parse() returned None for
None_evaluate ==
    /\ Evaluating("None")
    /\ Fail("AttributeError")
    /\ UNCHANGED <<tree, expression, stack, variables, heap, out, log>>

Int_evaluate ==
    /\ Evaluating("Int")
    /\ ctrl' = Ret(IntV(ctrl.node.value))
    /\ log' = Append(log, Entered(ctrl.node))
    /\ UNCHANGED <<pc, err, tree, expression, stack, variables, heap, out>>

Bool_evaluate ==
    /\ Evaluating("Bool")
    /\ ctrl' = Ret(BoolV(ctrl.node.value))
    /\ log' = Append(log, Entered(ctrl.node))
    /\ UNCHANGED <<pc, err, tree, expression, stack, variables, heap, out>>

Str_evaluate ==
    /\ Evaluating("Str")
    /\ ctrl' = Ret(StrV(ctrl.node.value))
    /\ log' = Append(log, Entered(ctrl.node))
    /\ UNCHANGED <<pc, err, tree, expression, stack, variables, heap, out>>

\* variables[self.text]
Var_evaluate ==
    /\ Evaluating("Var")
    /\ log' = Append(log, Entered(ctrl.node))
    /\ IF ctrl.node.text \in DOMAIN Env
       THEN /\ ctrl' = Ret(Env[ctrl.node.text])
            /\ UNCHANGED <<pc, err>>
       ELSE Fail("KeyError")
    /\ UNCHANGED <<tree, expression, stack, variables, heap, out>>

Function_evaluate ==
    /\ Evaluating("Function")
    /\ ctrl' = Ret(FnV(ctrl.node))
    /\ log' = Append(log, Entered(ctrl.node))
    /\ UNCHANGED <<pc, err, tree, expression, stack, variables, heap, out>>

\* Let.evaluate, first half: self.value.evaluate() is called
Let_evaluate ==
    /\ Evaluating("Let")
    /\ stack' = Append(stack, [f |-> "Let", node |-> ctrl.node])
    /\ ctrl' = Eval(ctrl.node.value)
    /\ log' = Append(log, Entered(ctrl.node))
    /\ UNCHANGED <<pc, err, tree, expression, variables, heap, out>>

\* Let.evaluate, second half: the store into the dict that is global now, then next
Let_store ==
    /\ Returning("Let")
    /\ heap' = [heap EXCEPT ![variables] = Store(@, Top.node.name.text, ctrl.val)]
    /\ stack' = Pop
    /\ ctrl' = IF Top.node.next # NoneNode THEN Eval(Top.node.next) ELSE Ret(NoneV)
    /\ UNCHANGED <<pc, err, tree, expression, variables, out, log>>

\* Binary.evaluate: self.lhs.evaluate() is called
Binary_evaluate ==
    /\ Evaluating("Binary")
    /\ stack' = Append(stack, [f |-> "BinL", node |-> ctrl.node])
    /\ ctrl' = Eval(ctrl.node.lhs)
    /\ log' = Append(log, Entered(ctrl.node))
    /\ UNCHANGED <<pc, err, tree, expression, variables, heap, out>>

\* the operator applied to the two values; the frame is dropped
Applied(node, a, b) ==
    LET res == BinaryOp_evaluate(node.op.name, a, b)
    IN /\ stack' = Pop
       /\ log' = Append(log, [ev |-> "apply", id |-> node.id, d |-> Depth - 1,
                              lhs |-> node.lhs.id, rhs |-> node.rhs.id,
                              op |-> node.op.name, a |-> a, b |-> b, res |-> res])
       /\ IF res.t = "raise"
          THEN Fail(res.e)
          ELSE /\ ctrl' = Ret(res)
               /\ UNCHANGED <<pc, err>>

\* a Binary that skips its right child when the left decides And / Or
Binary_rhs_short_circuit ==
    /\ Returning("BinL")
    /\ IF \/ Top.node.op.name = "And" /\ ~Truthy(ctrl.val)
          \/ Top.node.op.name = "Or" /\ Truthy(ctrl.val)
       THEN /\ Top.node.rhs # NoneNode
            /\ stack' = Pop
            /\ log' = Append(log, [ev |-> "apply", id |-> Top.node.id, d |-> Depth - 1,
                                   lhs |-> Top.node.lhs.id, rhs |-> Top.node.rhs.id,
                                   op |-> Top.node.op.name, a |-> ctrl.val, b |-> ctrl.val,
                                   res |-> ctrl.val])
            /\ ctrl' = Ret(ctrl.val)
       ELSE /\ stack' = Append(Pop, [f |-> "BinR", node |-> Top.node, a |-> ctrl.val])
            /\ ctrl' = Eval(Top.node.rhs)
            /\ UNCHANGED log
    /\ UNCHANGED <<pc, err, tree, expression, variables, heap, out>>

\* Binary.evaluate: lhs has returned, self.rhs.evaluate() is called
Binary_rhs ==
    /\ Returning("BinL")
    /\ stack' = Append(Pop, [f |-> "BinR", node |-> Top.node, a |-> ctrl.val])
    /\ ctrl' = Eval(Top.node.rhs)
    /\ UNCHANGED <<pc, err, tree, expression, variables, heap, out, log>>

\* Binary.evaluate: rhs has returned, self.op.evaluate(a, b)
Binary_apply ==
    /\ Returning("BinR")
    /\ Applied(Top.node, Top.a, ctrl.val)
    /\ UNCHANGED <<tree, expression, variables, heap, out>>

\* Print.evaluate: self.value.evaluate() is called
Print_evaluate ==
    /\ Evaluating("Print")
    /\ stack' = Append(stack, [f |-> "Print", node |-> ctrl.node])
    /\ ctrl' = Eval(ctrl.node.value)
    /\ log' = Append(log, Entered(ctrl.node))
    /\ UNCHANGED <<pc, err, tree, expression, variables, heap, out>>

\* Print.evaluate: print(value), the method returns None
Print_emit ==
    /\ Returning("Print")
    /\ stack' = Pop
    /\ IF PrintModelled(ctrl.val)
       THEN /\ out' = Append(out, PyStr(ctrl.val))
            /\ log' = Append(log, [ev |-> "print", id |-> Top.node.id, d |-> Depth - 1,
                                   text |-> PyStr(ctrl.val)])
            /\ ctrl' = Ret(NoneV)
            /\ UNCHANGED <<pc, err>>
       ELSE /\ Fail("Unmodelled")
            /\ UNCHANGED <<out, log>>
    /\ UNCHANGED <<tree, expression, variables, heap>>

\* If.evaluate: self.condition.evaluate() is called
If_evaluate ==
    /\ Evaluating("If")
    /\ stack' = Append(stack, [f |-> "If", node |-> ctrl.node])
    /\ ctrl' = Eval(ctrl.node.condition)
    /\ log' = Append(log, Entered(ctrl.node))
    /\ UNCHANGED <<pc, err, tree, expression, variables, heap, out>>

\* If.evaluate: the branch on the truth value of the condition
If_branch ==
    /\ Returning("If")
    /\ stack' = Pop
    /\ log' = Append(log, [ev |-> "if", id |-> Top.node.id, d |-> Depth - 1,
                           cond |-> ctrl.val,
                           taken |-> IF Truthy(ctrl.val) THEN "then"
                                     ELSE IF Top.node.otherwise # NoneNode THEN "otherwise"
                                     ELSE "none"])
    /\ ctrl' = IF Truthy(ctrl.val) THEN Eval(Top.node.then)
               ELSE IF Top.node.otherwise # NoneNode THEN Eval(Top.node.otherwise)
               ELSE Ret(NoneV)
    /\ UNCHANGED <<pc, err, tree, expression, variables, heap, out>>

\* Call.evaluate: the callee is looked up, the dict copied, the first pair started
\* (or the body, when zip yields no pair).  `pre` is history: the dict at this point.
Call_evaluate ==
    /\ Evaluating("Call")
    /\ log' = Append(log, Entered(ctrl.node))
    /\ LET node == ctrl.node
           func == Env[node.callee.text]
           old == dict_copy(heap, variables)
           n == zip(node.arguments, func.f.parameters)
           frame == [node |-> node, func |-> func.f, old |-> old, pre |-> Env]
       IN IF node.callee.kind # "Var"
          THEN Fail("AttributeError") /\ UNCHANGED <<stack, heap>>
          ELSE IF node.callee.text \notin DOMAIN Env
          THEN Fail("KeyError") /\ UNCHANGED <<stack, heap>>
          ELSE /\ heap' = Append(heap, Env)
               /\ IF func.t # "fn"
                  THEN Fail("AttributeError") /\ UNCHANGED stack
                  ELSE /\ UNCHANGED <<pc, err>>
                       /\ IF n = 0
                          THEN /\ stack' = Append(stack, [f |-> "CallBody"] @@ frame)
                               /\ ctrl' = Eval(func.f.value)
                          ELSE /\ stack' = Append(stack,
                                          [f |-> "CallArg", k |-> 1, n |-> n] @@ frame)
                               /\ ctrl' = Eval(node.arguments[1])
    /\ UNCHANGED <<tree, expression, variables, out>>

\* Call.evaluate: variables[param.text] = <the argument's value>, into the dict that
\* is global now; then the next pair, or func.call()
Call_bind ==
    /\ Returning("CallArg")
    /\ heap' = [heap EXCEPT ![variables] = Store(@, Top.func.parameters[Top.k].text, ctrl.val)]
    /\ IF Top.k < Top.n
       THEN /\ stack' = Append(Pop, [Top EXCEPT !.k = @ + 1])
            /\ ctrl' = Eval(Top.node.arguments[Top.k + 1])
       ELSE /\ stack' = Append(Pop, [f |-> "CallBody", node |-> Top.node, func |-> Top.func,
                                     old |-> Top.old, pre |-> Top.pre])
            /\ ctrl' = Eval(Top.func.value)
    /\ UNCHANGED <<pc, err, tree, expression, variables, out, log>>

\* a Call that leaves the callee's dict in place
Call_return_no_restore ==
    /\ Returning("CallBody")
    /\ stack' = Pop
    /\ ctrl' = Ret(ctrl.val)
    /\ log' = Append(log, [ev |-> "return", id |-> Top.node.id, d |-> Depth - 1,
                           pre |-> Top.pre, live |-> Env, post |-> heap[variables]])
    /\ UNCHANGED <<pc, err, tree, expression, variables, heap, out>>

\* Call.evaluate: func.call() has returned; variables = old_variables; return value
Call_return ==
    /\ Returning("CallBody")
    /\ variables' = Top.old
    /\ stack' = Pop
    /\ ctrl' = Ret(ctrl.val)
    /\ log' = Append(log, [ev |-> "return", id |-> Top.node.id, d |-> Depth - 1,
                           pre |-> Top.pre, live |-> Env, post |-> heap[Top.old]])
    /\ UNCHANGED <<pc, err, tree, expression, heap, out>>

Next ==
    \/ parse_ast
    \/ Interpreter_evaluate
    \/ None_evaluate
    \/ Int_evaluate
    \/ Bool_evaluate
    \/ Str_evaluate
    \/ Var_evaluate
    \/ Function_evaluate
    \/ Let_evaluate
    \/ Let_store
    \/ Binary_evaluate
    \/ Binary_rhs
    \/ Binary_apply
    \/ Print_evaluate
    \/ Print_emit
    \/ If_evaluate
    \/ If_branch
    \/ Call_evaluate
    \/ Call_bind
    \/ Call_return

Spec == Init /\ [][Next]_vars

\* the interpreter is one thread that runs until it returns or raises
FairSpec == Spec /\ WF_vars(Next)

(***************************************************************************)
(* Properties.                                                             *)
(***************************************************************************)
Events(e) == {i \in 1..Len(log) : log[i].ev = e}
Last(s) == s[Len(s)]
Finished == pc \in {"done", "error"}

\* the body of the callee is about to be evaluated: every pair of zip has been bound
AtBodyEntry ==
    /\ pc = "run" /\ ctrl.m = "eval"
    /\ stack # <<>> /\ Top.f = "CallBody"
    /\ ctrl.node = Top.func.value

RECURSIVE HasLet(_)
\* a Let occurs in the node
HasLet(n) ==
    CASE n.kind = "Let" -> TRUE
      [] n.kind = "Print" -> HasLet(n.value)
      [] n.kind = "Binary" -> HasLet(n.lhs) \/ HasLet(n.rhs)
      [] n.kind = "If" -> HasLet(n.condition) \/ HasLet(n.then) \/ HasLet(n.otherwise)
      [] n.kind = "Function" -> HasLet(n.value)
      [] n.kind = "Call" -> \E i \in 1..Len(n.arguments) : HasLet(n.arguments[i])
      [] OTHER -> FALSE

RECURSIVE Fac(_)
Fac(n) == IF n = 0 THEN 1 ELSE n * Fac(n - 1)

\* C1: every Call that returns leaves the binding environment exactly as it was when
\* the Call started (before its arguments): same names, same values, at any depth.
C1_CallRestoresEnvironment ==
    \A i \in Events("return") : log[i].post = log[i].pre

\* a nested call returned after its callee had re-bound x (a name bound before the
\* call, and the parameter of the enclosing call) and bound z; the outer call returned
\* after an argument had bound w
C1_Witness ==
    /\ tree = RestoreProgram /\ pc = "done"
    /\ \E i, j \in Events("return") :
         /\ i < j /\ log[i].d > log[j].d
         /\ log[i].pre["x"] = IntV(10) /\ log[i].live["x"] = IntV(2)
         /\ "z" \in DOMAIN log[i].live /\ "z" \notin DOMAIN log[i].post
         /\ log[j].pre["x"] = IntV(1) /\ log[j].live["x"] = IntV(10)
         /\ "w" \in DOMAIN log[j].live /\ "w" \notin DOMAIN log[j].post

\* C2: at the entry of the body, the k-th parameter holds the value its argument has in
\* the environment of before the call (stated for arguments that are plain Var nodes
\* bound before the call, and callees whose parameter names are distinct).
C2_ArgumentsSeePreCallEnvironment ==
    AtBodyEntry =>
        LET args == Top.node.arguments
            params == Top.func.parameters
        IN (\A i, j \in 1..Len(params) : params[i].text = params[j].text => i = j) =>
           \A k \in 1..Min(Len(args), Len(params)) :
               (args[k].kind = "Var" /\ args[k].text \in DOMAIN Top.pre) =>
                   Env[params[k].text] = Top.pre[args[k].text]

\* C3: factorial bound by Let and called on n in 0..MaxN ends normally, having printed
\* n!, with the recursive call on either side of the product.
C3_FactorialTerminatesCorrect ==
    [](tree \in FactorialPrograms =>
        <>(/\ tree \in FactorialPrograms
           /\ pc = "done"
           /\ out = parse_prints(tree.expression)
                      \o <<IntStr(Fac(tree.expression.next.value.arguments[1].value))>>))

\* factorial(5), the recursive call on the left of the product, printed 120
C3_Witness ==
    /\ tree = Factorial(5, "lhs") /\ pc = "done"
    /\ Last(out) = "120"
    /\ Cardinality(Events("return")) = 6

\* C4: on integers, Lt, Gt, Lte and Gte yield <, >, <= and >=.
C4_OrderingTagsCompare ==
    \A i \in Events("apply") :
        (log[i].a.t = "int" /\ log[i].b.t = "int") =>
            /\ log[i].op = "Lt" => log[i].res = BoolV(log[i].a.i < log[i].b.i)
            /\ log[i].op = "Gt" => log[i].res = BoolV(log[i].a.i > log[i].b.i)
            /\ log[i].op = "Lte" => log[i].res = BoolV(log[i].a.i <= log[i].b.i)
            /\ log[i].op = "Gte" => log[i].res = BoolV(log[i].a.i >= log[i].b.i)

\* C5: a Binary whose tag is outside the operator table (Neq, the spec's name of the
\* inequality tag, left aside) raises and ends the run; it yields nothing.
C5_UnknownOperatorFails ==
    \A i \in Events("apply") :
        log[i].op \notin OperatorTable \cup {"Neq"} =>
            log[i].res.t = "raise" /\ pc = "error"

\* C6: an If never branches on a condition that is not a boolean.
C6_IfRejectsNonBoolean ==
    \A i \in Events("if") : log[i].cond.t = "bool"

\* C7 as claimed: in the body, a parameter without a matching argument is unbound,
\* whatever the caller's environment holds.
C7_MissingParameterUnbound ==
    AtBodyEntry =>
        LET args == Top.node.arguments
            params == Top.func.parameters
            n == Min(Len(args), Len(params))
        IN \A k \in (n + 1)..Len(params) :
               (\A j \in 1..n : params[j].text # params[k].text) =>
                   params[k].text \notin DOMAIN Env

\* C7 as amended: the call binds the first min(#arguments, #parameters) parameters and
\* nothing else, so a parameter without a matching argument is bound in the body
\* exactly when the caller's environment binds that name, to the caller's value
\* (stated for calls whose arguments hold no Let); a Var on it raises only when the
\* caller has no such binding.
C7_ZipBindsShorter ==
    /\ AtBodyEntry =>
         LET args == Top.node.arguments
             params == Top.func.parameters
             n == Min(Len(args), Len(params))
             bound == {params[k].text : k \in 1..n}
         IN (\A k \in 1..n : ~HasLet(args[k])) =>
                /\ DOMAIN Env = DOMAIN Top.pre \cup bound
                /\ \A x \in DOMAIN Top.pre \ bound : Env[x] = Top.pre[x]
                /\ \A k \in (n + 1)..Len(args) :
                       \A i \in Events("eval") : log[i].id # args[k].id
    /\ (tree = MissingArgUnbound /\ Finished) => (pc = "error" /\ err = "KeyError")
    /\ (tree = MissingArgBound /\ Finished) => (pc = "done" /\ Last(out) = "9")
    /\ (tree = ExtraArgs /\ Finished) =>
           (pc = "done" /\ out = parse_prints(tree.expression) \o <<"1">>)

\* the body is entered with a parameter that got no argument and that the caller binds
C7_Witness ==
    /\ AtBodyEntry
    /\ Len(Top.node.arguments) < Len(Top.func.parameters)
    /\ \E k \in (Len(Top.node.arguments) + 1)..Len(Top.func.parameters) :
           /\ Top.func.parameters[k].text \in DOMAIN Top.pre
           /\ Top.func.parameters[k].text \in DOMAIN Env

\* C8: when a Binary applies its operator, its lhs and then its rhs have each been
\* evaluated exactly once since that Binary was entered, And and Or included.
C8_BinaryEvaluatesBothInOrder ==
    \A k \in Events("apply") :
        LET e == log[k]
            starts == {s \in 1..(k - 1) :
                          log[s].ev = "eval" /\ log[s].id = e.id /\ log[s].d = e.d}
            s0 == CHOOSE s \in starts : \A t \in starts : t <= s
            L == {i \in (s0 + 1)..(k - 1) :
                     log[i].ev = "eval" /\ log[i].id = e.lhs /\ log[i].d = e.d + 1}
            R == {i \in (s0 + 1)..(k - 1) :
                     log[i].ev = "eval" /\ log[i].id = e.rhs /\ log[i].d = e.d + 1}
        IN /\ starts # {}
           /\ Cardinality(L) = 1
           /\ Cardinality(R) = 1
           /\ \A i \in L, j \in R : i < j

\* And with a false lhs and Or with a true lhs were applied after the rhs had printed
C8_Witness ==
    /\ tree = Logical("And", FALSE, TRUE) /\ pc = "done"
    /\ \E k \in Events("apply") :
           /\ log[k].op = "And" /\ log[k].a = BoolV(FALSE) /\ log[k].res = BoolV(FALSE)
           /\ \E i, j \in Events("print") :
                  i < j /\ j < k /\ log[i].text = "L" /\ log[j].text = "R"

\* the texts of the Print evaluations, in order
RECURSIVE PrintTexts(_)
PrintTexts(l) ==
    IF l = <<>> THEN <<>>
    ELSE (IF Head(l).ev = "print" THEN <<Head(l).text>> ELSE <<>>) \o PrintTexts(Tail(l))

\* C9: the output holds exactly the lines of the Print evaluations, in their order.
C9_OutputIsPrintLines ==
    out = PrintTexts(log)

\* after parsing, the output is the lines of parse() followed by the Print lines
OutputAfterParse ==
    pc # "parse" => out = parse_prints(tree.expression) \o PrintTexts(log)

\* no run of Programs reaches a host operation the model leaves out
ModelledOnly == err # "Unmodelled"

\* C10: a free name of a function body is looked up in the environment that is live at
\* the call: the function returned by mk(5) does not see x = 5 (the run raises, or, once
\* the caller has bound x = 7, prints 7), and f called from h sees h's k = 8, not the
\* k = 3 bound where f was defined.
C10_DynamicScoping ==
    /\ (tree = ClosureProgram /\ Finished) =>
           (pc = "error" /\ err = "KeyError" /\ out = parse_prints(tree.expression))
    /\ (tree = ClosureRebound /\ Finished) => (pc = "done" /\ Last(out) = "7")
    /\ (tree = DynamicProgram /\ Finished) => (pc = "done" /\ Last(out) = "8")

\* the returned function was called after mk(5) had returned, and its x was unbound
C10_Witness ==
    /\ tree = ClosureProgram /\ pc = "error" /\ err = "KeyError"
    /\ Cardinality(Events("return")) = 1
    /\ \E i \in Events("return") : log[i].live["x"] = IntV(5)
    /\ stack # <<>> /\ Top.f = "CallBody" /\ Top.func.parameters = <<>>

====
